---- MODULE Spec2Model ----
(***************************************************************************)
(* Model of the tgo-plugin-go runtime: the framed transport                *)
(* (transport.go), the registration handshake, the dispatch loop and the   *)
(* request router (models.go, Run / register / handleRequest).             *)
(*                                                                         *)
(* Go values of type `any` are records [t |-> dynamic type, v |-> value];  *)
(* JSON texts are records [k |-> kind, v |-> text]; a payload is a         *)
(* sequence of bytes: '{', then key byte / value byte pairs, then '}'.     *)
(***************************************************************************)
EXTENDS Integers, Sequences, FiniteSets, TLC

\* ------------------------------------------------------------------ bounds
\* Requests the host sends after the handshake reply (and dispatch units).
MaxReq == 2
MaxClose == 2

\* ------------------------------------------------------- Go and JSON values
Nil == [t |-> "nil", v |-> "nil"]
GoStr(s) == [t |-> "string", v |-> s]
GoNum(s) == [t |-> "float64", v |-> s]
GoInt(s) == [t |-> "int", v |-> s]
GoBool(s) == [t |-> "bool", v |-> s]
GoMap(s) == [t |-> "map", v |-> s]

JNull == [k |-> "null", v |-> "null"]
JNum(s) == [k |-> "num", v |-> s]
JStr(s) == [k |-> "str", v |-> s]
JObj(s) == [k |-> "obj", v |-> s]

\* The JSON texts that occur as values of an envelope's keys.  The byte that
\* stands for a text on the wire is its index in this table.
JsonTable ==
  << JNull, JNum("1"), JNum("7"), JNum("8"), JNum("5"),
     JStr("2.0"), JStr(""), JStr("register"), JStr("ping"), JStr("shutdown"),
     JStr("visitor_panel/render"), JStr("visitor_panel/event"),
     JStr("chat_toolbar/render"), JStr("chat_toolbar/event"),
     JStr("sidebar_iframe/config"), JStr("channel_integration/manifest"),
     JStr("tool/execute"), JStr("foo/bar"), JStr("ok"),
     JObj("{}"), JObj("{success:true}"), JObj("{success:false}"),
     JObj("{success:'true'}"), JObj("{pong:true}"),
     JObj("{code:-32601,message:method not found}"),
     JObj("{code:-32601,message:handler failed}"),
     JObj("{code:-1,message:denied}"),
     JObj("{template:text,data}"), JObj("{action:noop,data}"),
     JObj("{action:batch,data:{actions}}"), JObj("{url,width}"),
     JObj("{success:true,content}"), JObj("{success:false,content}"),
     JObj("{id,name,version,capabilities,dev_token}"),
     JObj("{tool_name,arguments}") >>

JsonCode(j) == CHOOSE i \in 1..Len(JsonTable) : JsonTable[i] = j

\* Keys of an envelope, in the order json.Marshal writes the keys of a map.
KeyTable == << "error", "id", "jsonrpc", "method", "params", "result" >>
KeyCode(k) == CHOOSE i \in 1..Len(KeyTable) : KeyTable[i] = k

LBrace == 123
RBrace == 125

\* encoding/json, value of type any -> JSON text ("fail" when unsupported).
MarshalValue(x) ==
  CASE x.t = "nil" -> JNull
    [] x.t \in {"float64", "int"} -> JNum(x.v)
    [] x.t = "string" -> JStr(x.v)
    [] x.t = "map" -> JObj(x.v)
    [] x.t = "*ToolResult" ->
         IF x.v = "nil" THEN JNull
         ELSE IF x.v = "ok" THEN JObj("{success:true,content}")
         ELSE JObj("{success:false,content}")
    [] OTHER -> [k |-> "fail", v |-> x.t]

\* encoding/json, JSON text -> value of type any (numbers become float64).
UnmarshalValue(j) ==
  CASE j.k = "null" -> Nil
    [] j.k = "num" -> GoNum(j.v)
    [] j.k = "str" -> GoStr(j.v)
    [] OTHER -> GoMap(j.v)

RECURSIVE MarshalPairs(_, _)
MarshalPairs(m, i) ==
  IF i > Len(KeyTable) THEN << >>
  ELSE IF KeyTable[i] \in DOMAIN m
       THEN << KeyCode(KeyTable[i]), JsonCode(MarshalValue(m[KeyTable[i]])) >>
            \o MarshalPairs(m, i + 1)
       ELSE MarshalPairs(m, i + 1)

MarshalOK(m) == \A k \in DOMAIN m : MarshalValue(m[k]).k # "fail"

\* json.Marshal of a map[string]any: the payload bytes.
Marshal(m) == << LBrace >> \o MarshalPairs(m, 1) \o << RBrace >>

\* Whether json.Unmarshal accepts the payload as a JSON object.
ValidPayload(d) ==
  /\ Len(d) >= 2
  /\ d[1] = LBrace
  /\ d[Len(d)] = RBrace
  /\ Len(d) % 2 = 0
  /\ \A i \in 2..(Len(d) - 1) :
       IF i % 2 = 0 THEN d[i] \in 1..Len(KeyTable) ELSE d[i] \in 1..Len(JsonTable)

\* json.Unmarshal into map[string]any (a repeated key keeps its last value).
Unmarshal(d) ==
  LET keyAt(k) == { i \in 2..(Len(d) - 1) : i % 2 = 0 /\ KeyTable[d[i]] = k }
      last(S) == CHOOSE i \in S : \A j \in S : j <= i
      keys == { k \in { KeyTable[c] : c \in 1..Len(KeyTable) } : keyAt(k) # {} }
  IN [ k \in keys |-> UnmarshalValue(JsonTable[d[last(keyAt(k)) + 1]]) ]

\* binary.Write / binary.Read of a uint32, big endian.
BE32(n) == << (n \div 16777216) % 256, (n \div 65536) % 256, (n \div 256) % 256, n % 256 >>
FromLE32(b) == ((b[4] * 256 + b[3]) * 256 + b[2]) * 256 + b[1]
FromBE32(b) == ((b[1] * 256 + b[2]) * 256 + b[3]) * 256 + b[4]

Frame(d) == BE32(Len(d)) \o d


\* --------------------------------------------------------------- the state
VARIABLES
  tconn,       \* Transport.conn: "nil" or "conn"
  mu,          \* Transport.mu: NoOwner, or the task holding it
  wire,        \* bytes the plugin has written to the stream
  inbuf,       \* bytes the host has written and the plugin has not read yet
  peerClosed,  \* the host has closed its end of the stream
  mpc,         \* position of Run (the calling task)
  ret,         \* what Run returned: [kind, err]
  snd,         \* per task, its SendMessage call: [pc, data, res]
  rcv,         \* per caller, its RecvMessage call: [pc, len, err, msg]
  done,        \* the channel `done` (capacity 1)
  sig,         \* the channel sigChan holds a signal
  units,       \* the handleRequest goroutines: [pc, msg, hret, env]
  nunits,      \* goroutines started so far
  crashed,     \* a goroutine panicked: the process is gone
  impl,        \* the optional handler interfaces the plugin implements
  big,         \* a send whose data is known by its length only: [len, prefix, sent]
  closes,      \* what the calls of Transport.Close returned, in order
  hlog,        \* the envelopes the host has written whole, in order
  hsent,       \* frames the host has sent
  tested       \* the host has sent the request under test (RouteSpec)

vars == << tconn, mu, wire, inbuf, peerClosed, mpc, ret, snd, rcv, done, sig,
           units, nunits, crashed, impl, big, closes, hlog, hsent, tested >>

Main == 0
NoOwner == 0 - 1
Tasks == 0..MaxReq
UnitIds == 1..MaxReq
Callers == {"main", "reader"}

ExtensionMethods ==
  { "visitor_panel/render", "visitor_panel/event", "chat_toolbar/render",
    "chat_toolbar/event", "sidebar_iframe/config", "channel_integration/manifest",
    "tool/execute" }
ReservedMethods == { "shutdown", "ping" }

IdleSend == [pc |-> "idle", data |-> << >>, res |-> "none"]
IdleRecv == [pc |-> "idle", len |-> 0, err |-> "none", msg |-> << >>]
NoReturn == [val |-> Nil, err |-> "none"]
IdleUnit == [pc |-> "idle", msg |-> << >>, hret |-> NoReturn, env |-> << >>]
NoRet == [kind |-> "none", err |-> "none"]

\* The plugins the model runs: one that embeds BasePlugin and implements no
\* optional interface, and one that implements all seven.
Plugins == { {}, ExtensionMethods }

\* The length of a byte slice, len(data), is an int of 64 bits.  It is
\* written here in digits of 16 bits, the most significant first:
\* << d2, d1, d0 >> is d2 * 2^32 + d1 * 2^16 + d0.
IntLen(n) == << 0, n \div 65536, n % 65536 >>
NoBulk == [len |-> IntLen(0), prefix |-> << >>, sent |-> FALSE]

Constructed ==
  /\ tconn = "nil"
  /\ mu = NoOwner
  /\ wire = << >>
  /\ inbuf = << >>
  /\ peerClosed = FALSE
  /\ mpc = "connect"
  /\ ret = NoRet
  /\ snd = [p \in Tasks |-> IdleSend]
  /\ rcv = [c \in Callers |-> IdleRecv]
  /\ done = << >>
  /\ sig = FALSE
  /\ units = [u \in UnitIds |-> IdleUnit]
  /\ nunits = 0
  /\ crashed = FALSE
  /\ impl \in Plugins
  /\ closes = << >>
  /\ hlog = << >>
  /\ hsent = 0
  /\ tested = FALSE

Init == Constructed /\ big = NoBulk

\* ------------------------------------------------------------- Transport
\* register's request envelope.
RegisterReq ==
  [ jsonrpc |-> GoStr("2.0"), id |-> GoInt("1"), method |-> GoStr("register"),
    params |-> GoMap("{id,name,version,capabilities,dev_token}") ]

\* The envelope task p passes to SendMessage.
EnvOf(p) == IF p = Main THEN RegisterReq ELSE units[p].env

\* A call of SendMessage that has not taken the mutex yet.
CallSend == [pc |-> "lock", data |-> << >>, res |-> "none"]

SendRet(r) == [pc |-> "ret", data |-> << >>, res |-> r]

\* (mutant of SendEnter: the error of json.Marshal is not looked at)
SendEnterUnchecked(m) ==
  IF tconn = "nil" THEN SendRet("notconn")
  ELSE [pc |-> "wprefix", data |-> IF MarshalOK(m) THEN Marshal(m) ELSE << >>, res |-> "none"]

\* SendMessage up to the first write: the conn check and json.Marshal.
SendEnter(m) ==
  IF tconn = "nil" THEN SendRet("notconn")
  ELSE IF ~MarshalOK(m) THEN SendRet("marshal")
  ELSE [pc |-> "wprefix", data |-> Marshal(m), res |-> "none"]

\* (mutant of MayLock: SendMessage without the mutex)
MayLockUnguarded(p) == TRUE

\* Whether task p may take Transport.mu.
MayLock(p) == mu = NoOwner

\* t.mu.Lock(), and the code that runs under it before the first write.
SendLock(p) ==
  /\ ~crashed
  /\ snd[p].pc = "lock"
  /\ MayLock(p)
  /\ LET s == SendEnter(EnvOf(p)) IN
       /\ snd' = [snd EXCEPT ![p] = s]
       /\ mu' = IF s.pc = "ret" THEN NoOwner ELSE p
  /\ UNCHANGED << tconn, wire, inbuf, peerClosed, mpc, ret, rcv, done, sig,
                  units, nunits, crashed, impl, big, closes, hlog, hsent, tested >>

\* How a write to the connection can end: it succeeds, or, once the host is
\* gone, it may fail.  (A write that never ends is a step not taken.)
WriteResults == IF peerClosed THEN {"ok", "fail"} ELSE {"ok"}

\* length := uint32(len(data)): the conversion keeps the low 32 bits of the
\* length and drops the rest.
Uint32(l) == << l[2], l[3] >>

\* binary.Write(t.conn, binary.BigEndian, length): the 4 bytes of a uint32,
\* the most significant first.
PutUint32(w) == << w[1] \div 256, w[1] % 256, w[2] \div 256, w[2] % 256 >>

\* The 4 bytes binary.Write writes for data of length l.
PrefixOfLength(l) == PutUint32(Uint32(l))

\* The 4 bytes binary.Write writes for the length of the data.
Prefix(data) == PrefixOfLength(IntLen(Len(data)))

\* binary.Write(t.conn, binary.BigEndian, length); a failed write returns
\* through the deferred Unlock.
SendPrefix(p) ==
  /\ ~crashed
  /\ snd[p].pc = "wprefix"
  /\ \E w \in WriteResults :
       IF w = "ok"
       THEN /\ wire' = wire \o Prefix(snd[p].data)
            /\ snd' = [snd EXCEPT ![p].pc = "wpayload"]
            /\ mu' = mu
       ELSE /\ wire' = wire
            /\ snd' = [snd EXCEPT ![p] = SendRet("wprefix")]
            /\ mu' = NoOwner
  /\ UNCHANGED << tconn, inbuf, peerClosed, mpc, ret, rcv, done, sig,
                  units, nunits, crashed, impl, big, closes, hlog, hsent, tested >>

\* t.conn.Write(data), then the deferred Unlock.
SendPayload(p) ==
  /\ ~crashed
  /\ snd[p].pc = "wpayload"
  /\ \E w \in WriteResults :
       IF w = "ok"
       THEN /\ wire' = wire \o snd[p].data
            /\ snd' = [snd EXCEPT ![p] = SendRet("ok")]
       ELSE /\ wire' = wire
            /\ snd' = [snd EXCEPT ![p] = SendRet("wdata")]
  /\ mu' = NoOwner
  /\ UNCHANGED << tconn, inbuf, peerClosed, mpc, ret, rcv, done, sig,
                  units, nunits, crashed, impl, big, closes, hlog, hsent, tested >>

\* A call of RecvMessage that has not run its conn check yet.
CallRecv == [pc |-> "r81", len |-> 0, err |-> "none", msg |-> << >>]

RecvRet(e, m) == [pc |-> "ret", len |-> 0, err |-> e, msg |-> m]

\* Whether unit u still runs (it has been started and has not returned).
Running(u) ==
  \/ units[u].pc \in {"start", "handler"}
  \/ units[u].pc = "send" /\ snd[u].pc # "ret"

\* (mutant of Waits: the reading goroutine runs handleRequest itself)
WaitsForUnit(u) == TRUE

\* Run, line 205: whether the reading goroutine waits for unit u before it
\* receives again.  `go handleRequest(...)` does not wait.
Waits(u) == FALSE

\* RecvMessage, `if t.conn == nil`.
RecvCheck(c) ==
  /\ ~crashed
  /\ rcv[c].pc = "r81"
  /\ c = "reader" => \A u \in UnitIds : Waits(u) => ~Running(u)
  /\ rcv' = [rcv EXCEPT ![c] = IF tconn = "nil" THEN RecvRet("notconn", << >>)
                                ELSE [@ EXCEPT !.pc = "r87"]]
  /\ UNCHANGED << tconn, mu, wire, inbuf, peerClosed, mpc, ret, snd, done, sig,
                  units, nunits, crashed, impl, big, closes, hlog, hsent, tested >>

\* The error of RecvMessage when the stream ends after n of the 4 prefix
\* bytes: binary.Read gives io.EOF for n = 0, which is returned bare, and
\* io.ErrUnexpectedEOF otherwise, which is wrapped.
PrefixError(n) == IF n = 0 THEN "EOF" ELSE "prefix"

\* (mutant of PayloadError: io.EOF from the payload read is returned bare)
PayloadErrorBare(n) == IF n = 0 THEN "EOF" ELSE "data: unexpected EOF"

\* The error of RecvMessage when the stream ends after n bytes of the
\* payload: io.ReadFull gives io.EOF for n = 0 and io.ErrUnexpectedEOF
\* otherwise, and either is wrapped ("failed to read message data: %w").
PayloadError(n) == IF n = 0 THEN "data: EOF" ELSE "data: unexpected EOF"

\* The payload that is the JSON text null.
NullPayload == << JsonCode(JNull) >>

\* (mutant of Decode: a payload that does not decode is taken as empty)
DecodeAnything(d) ==
  IF ValidPayload(d) THEN RecvRet("none", Unmarshal(d)) ELSE RecvRet("none", << >>)

\* What RecvMessage returns once the payload bytes are read.  json.Unmarshal
\* into a map accepts an object, and null, for which it leaves the map nil.
Decode(d) ==
  IF ValidPayload(d) THEN RecvRet("none", Unmarshal(d))
  ELSE IF d = NullPayload THEN RecvRet("none", << >>)
  ELSE RecvRet("unmarshal", << >>)

\* The ways the read of line 87 can end for the call r: [r, buf, panic].
\* With t.conn set to nil by Close since line 81, either the read was
\* already blocked on the connection and fails, or t.conn is read as nil and
\* the call panics.
PrefixReads(r) ==
  IF tconn = "nil"
  THEN { [r |-> RecvRet("prefix", << >>), buf |-> inbuf, panic |-> FALSE],
         [r |-> r, buf |-> inbuf, panic |-> TRUE] }
  ELSE IF Len(inbuf) >= 4
  THEN { [r |-> [r EXCEPT !.pc = "r96", !.len = FromBE32(SubSeq(inbuf, 1, 4))],
          buf |-> SubSeq(inbuf, 5, Len(inbuf)), panic |-> FALSE] }
  ELSE IF peerClosed
  THEN { [r |-> RecvRet(PrefixError(Len(inbuf)), << >>), buf |-> << >>, panic |-> FALSE] }
  ELSE { }

\* The ways the read of line 96 can end, and the decoding that follows.
\* io.ReadFull of 0 bytes returns at once without touching the connection.
PayloadReads(r) ==
  IF r.len = 0
  THEN { [r |-> Decode(<< >>), buf |-> inbuf, panic |-> FALSE] }
  ELSE IF tconn = "nil"
  THEN { [r |-> RecvRet("data", << >>), buf |-> inbuf, panic |-> FALSE],
         [r |-> r, buf |-> inbuf, panic |-> TRUE] }
  ELSE IF Len(inbuf) >= r.len
  THEN { [r |-> Decode(SubSeq(inbuf, 1, r.len)),
          buf |-> SubSeq(inbuf, r.len + 1, Len(inbuf)), panic |-> FALSE] }
  ELSE IF peerClosed
  THEN { [r |-> RecvRet(PayloadError(Len(inbuf)), << >>), buf |-> << >>, panic |-> FALSE] }
  ELSE { }

\* binary.Read(t.conn, binary.BigEndian, &length) returns.
RecvPrefix(c) ==
  /\ ~crashed
  /\ rcv[c].pc = "r87"
  /\ \E o \in PrefixReads(rcv[c]) :
       /\ rcv' = [rcv EXCEPT ![c] = o.r]
       /\ inbuf' = o.buf
       /\ crashed' = o.panic
  /\ UNCHANGED << tconn, mu, wire, peerClosed, mpc, ret, snd, done, sig,
                  units, nunits, impl, big, closes, hlog, hsent, tested >>

\* io.ReadFull(t.conn, data) returns, then json.Unmarshal.
RecvPayload(c) ==
  /\ ~crashed
  /\ rcv[c].pc = "r96"
  /\ \E o \in PayloadReads(rcv[c]) :
       /\ rcv' = [rcv EXCEPT ![c] = o.r]
       /\ inbuf' = o.buf
       /\ crashed' = o.panic
  /\ UNCHANGED << tconn, mu, wire, peerClosed, mpc, ret, snd, done, sig,
                  units, nunits, impl, big, closes, hlog, hsent, tested >>

\* ------------------------------------------------------ register and Run
\* m[k] for a map[string]any: nil when the key is absent.
Get(m, k) == IF k \in DOMAIN m THEN m[k] ELSE Nil

\* result["success"] for the maps of JsonTable.
SuccessOf(r) ==
  CASE r.v \in {"{success:true}", "{success:true,content}"} -> GoBool("true")
    [] r.v \in {"{success:false}", "{success:false,content}"} -> GoBool("false")
    [] r.v = "{success:'true'}" -> GoStr("true")
    [] OTHER -> Nil

\* (mutant of Accepted: any result object is taken for success)
AcceptedAnyResult(resp) == Get(resp, "result").t = "map"

\* register, lines 242-245: the reply is accepted.
Accepted(resp) ==
  /\ Get(resp, "result").t = "map"
  /\ SuccessOf(Get(resp, "result")) = GoBool("true")

\* (mutant of Returning: a failed registration returns past the defer)
ReturningUnclosed(kind, err) ==
  /\ ret' = [kind |-> kind, err |-> err]
  /\ mpc' = IF kind = "registration" THEN "returned" ELSE "closing"

\* Run returns: the deferred transport.Close() is due.
Returning(kind, err) ==
  /\ ret' = [kind |-> kind, err |-> err]
  /\ mpc' = "closing"

\* (mutant of ReaderStart: the goroutine is started before register)
ReaderStartEarly == "before register"

\* Run, lines 189-197: the reading goroutine is started after register has
\* returned.
ReaderStart == "after register"

\* The go statement of line 197, if it is placed at `place`.
StartReader(place) ==
  rcv' = IF ReaderStart = place THEN [rcv EXCEPT !["reader"] = CallRecv] ELSE rcv

\* transport.Connect()
Connect ==
  /\ mpc = "connect"
  /\ \/ /\ tconn' = "conn"
        /\ mpc' = "reg_send"
        /\ snd' = [snd EXCEPT ![Main] = CallSend]
        /\ ret' = ret
        /\ StartReader("before register")
     \/ /\ tconn' = tconn
        /\ mpc' = "returned"
        /\ snd' = snd
        /\ ret' = [kind |-> "connect", err |-> "dial"]
        /\ rcv' = rcv
  /\ UNCHANGED << mu, wire, inbuf, peerClosed, done, sig, units, nunits,
                  crashed, impl, big, closes, hlog, hsent, tested >>

\* register, lines 233-237: SendMessage(req) has returned.
registerSent ==
  /\ ~crashed
  /\ mpc = "reg_send"
  /\ snd[Main].pc = "ret"
  /\ IF snd[Main].res = "ok"
     THEN /\ mpc' = "reg_recv"
          /\ rcv' = [rcv EXCEPT !["main"] = CallRecv]
          /\ ret' = ret
     ELSE /\ Returning("registration", snd[Main].res)
          /\ rcv' = rcv
  /\ UNCHANGED << tconn, mu, wire, inbuf, peerClosed, snd, done, sig, units,
                  nunits, crashed, impl, big, closes, hlog, hsent, tested >>

\* What Run does with register's reply: "loop" or "fail".
Registered(resp) == IF Accepted(resp) THEN "loop" ELSE "fail"

\* register, lines 237-247, and Run, lines 189-207: the reply is checked and
\* the reading goroutine is started.
registerReply ==
  /\ ~crashed
  /\ mpc = "reg_recv"
  /\ rcv["main"].pc = "ret"
  /\ IF rcv["main"].err # "none"
     THEN /\ Returning("registration", rcv["main"].err)
          /\ rcv' = rcv
     ELSE IF Registered(rcv["main"].msg) = "loop"
     THEN /\ mpc' = "select"
          /\ ret' = ret
          /\ StartReader("after register")
     ELSE /\ Returning("registration", "rejected")
          /\ rcv' = rcv
  /\ UNCHANGED << tconn, mu, wire, inbuf, peerClosed, snd, done, sig, units,
                  nunits, crashed, impl, big, closes, hlog, hsent, tested >>

\* (mutant of ReceivesSignal: the signal interrupts the handshake too)
ReceivesSignalAnywhere(pos) == pos \in {"reg_send", "reg_recv", "select"}

\* Where Run receives from sigChan: in the select of lines 209-216 only.
ReceivesSignal(pos) == pos = "select"

\* Run, lines 209-216: the select takes a case that is ready.
Select ==
  /\ ~crashed
  /\ \/ /\ mpc = "select"
        /\ done # << >>
        /\ Returning("lost", Head(done))
        /\ done' = Tail(done)
        /\ sig' = sig
     \/ /\ ReceivesSignal(mpc)
        /\ sig
        /\ Returning("nil", "none")
        /\ sig' = FALSE
        /\ done' = done
  /\ UNCHANGED << tconn, mu, wire, inbuf, peerClosed, snd, rcv, units, nunits,
                  crashed, impl, big, closes, hlog, hsent, tested >>

\* (mutant of Closed: conn.Close() is called again on a closed transport)
ClosedAgain(c) ==
  IF c # "nil" THEN [conn |-> "nil", err |-> "nil"]
  ELSE [conn |-> c, err |-> "use of closed connection"]

\* Transport.Close on a transport whose conn is c: the conn it leaves and
\* the error it returns.  With a conn, conn.Close() is called and conn set
\* to nil; without, nothing is done.
Closed(c) ==
  IF c # "nil" THEN [conn |-> "nil", err |-> "nil"]
  ELSE [conn |-> c, err |-> "nil"]

\* (mutant of CloseLocks: Close without the mutex)
CloseWithoutLock == TRUE

\* t.mu.Lock() in Close: the call goes on once no task holds the mutex.
CloseLocks == mu = NoOwner

\* A call of Transport.Close, which takes the mutex.
TransportClose ==
  /\ CloseLocks
  /\ tconn' = Closed(tconn).conn
  /\ closes' = Append(closes, Closed(tconn).err)
  /\ UNCHANGED << mu, wire, inbuf, peerClosed, snd, rcv >>

\* Transport.Close, run by Run's defer.
Close ==
  /\ ~crashed
  /\ mpc = "closing"
  /\ TransportClose
  /\ mpc' = "returned"
  /\ UNCHANGED << ret, done, sig, units, nunits, crashed, impl, big, hlog, hsent, tested >>

\* Transport.Close called by the owner of the transport while its
\* goroutines use it, at most MaxClose times.
CloseCall ==
  /\ ~crashed
  /\ mpc # "connect"
  /\ Len(closes) < MaxClose
  /\ TransportClose
  /\ UNCHANGED << mpc, ret, done, sig, units, nunits, crashed, impl, big, hlog, hsent, tested >>

\* (mutant of AfterRecv: the loop ends on end of stream only)
AfterRecvRetry(r) == IF r.err = "EOF" THEN "exit" ELSE "spawn"

\* What the reading goroutine does after RecvMessage returned r: it ends
\* the loop, or starts a goroutine for the message and receives again.
AfterRecv(r) == IF r.err # "none" THEN "exit" ELSE "spawn"

\* The goroutine of Run, lines 197-207: RecvMessage has returned.
ReaderLoop ==
  /\ ~crashed
  /\ rcv["reader"].pc = "ret"
  /\ IF AfterRecv(rcv["reader"]) = "exit"
     THEN /\ done' = Append(done, rcv["reader"].err)
          /\ rcv' = [rcv EXCEPT !["reader"].pc = "exit"]
          /\ UNCHANGED << units, nunits >>
     ELSE /\ nunits < MaxReq
          /\ nunits' = nunits + 1
          /\ units' = [units EXCEPT ![nunits + 1] =
                         [IdleUnit EXCEPT !.pc = "start", !.msg = rcv["reader"].msg]]
          /\ rcv' = [rcv EXCEPT !["reader"] = CallRecv]
          /\ done' = done
  /\ UNCHANGED << tconn, mu, wire, inbuf, peerClosed, mpc, ret, snd, sig,
                  crashed, impl, big, closes, hlog, hsent, tested >>

\* SIGINT or SIGTERM is delivered to sigChan (capacity 1).
Signal ==
  /\ ~crashed
  /\ mpc \in {"reg_send", "reg_recv", "select"}
  /\ ~sig
  /\ sig' = TRUE
  /\ UNCHANGED << tconn, mu, wire, inbuf, peerClosed, mpc, ret, snd, rcv, done,
                  units, nunits, crashed, impl, big, closes, hlog, hsent, tested >>

\* ----------------------------------------------------------- handleRequest
\* method, _ := msg["method"].(string)
MethodOf(msg) == IF Get(msg, "method").t = "string" THEN Get(msg, "method").v ELSE ""

Ack == GoMap("{success:true}")
Pong == GoMap("{pong:true}")

\* (mutant of ReplyId: every reply carries one fixed id)
ReplyIdFixed(msg) == GoNum("7")

\* The id a reply carries: msg["id"].
ReplyId(msg) == Get(msg, "id")

ResultEnv(msg, r) == [jsonrpc |-> GoStr("2.0"), id |-> ReplyId(msg), result |-> r]

\* Lines 325-331: every error is reported with the code -32601.
ErrorEnv(msg, e) ==
  [ jsonrpc |-> GoStr("2.0"), id |-> ReplyId(msg),
    error |-> GoMap(IF e = "method not found"
                    THEN "{code:-32601,message:method not found}"
                    ELSE "{code:-32601,message:handler failed}") ]

\* What the handlers of a method can return: [val, err].  Template and any
\* are interfaces, *Action and *ToolResult are pointers that may be nil.
HandlerReturns(method) ==
  CASE method \in {"visitor_panel/render", "chat_toolbar/render"} ->
         { [val |-> Nil, err |-> "nil"],
           [val |-> [t |-> "*Text", v |-> "text"], err |-> "nil"] }
    [] method \in {"visitor_panel/event", "chat_toolbar/event"} ->
         { [val |-> [t |-> "*Action", v |-> "nil"], err |-> "nil"],
           [val |-> [t |-> "*Action", v |-> "noop"], err |-> "nil"],
           [val |-> [t |-> "*Action", v |-> "chain"], err |-> "nil"] }
    [] method \in {"sidebar_iframe/config", "channel_integration/manifest"} ->
         { [val |-> Nil, err |-> "nil"],
           [val |-> GoMap("{url,width}"), err |-> "nil"],
           [val |-> [t |-> "chan", v |-> "ch"], err |-> "nil"] }
    [] OTHER ->
         { [val |-> [t |-> "*ToolResult", v |-> "nil"], err |-> "nil"],
           [val |-> [t |-> "*ToolResult", v |-> "ok"], err |-> "nil"],
           [val |-> [t |-> "*ToolResult", v |-> "fail"], err |-> "nil"],
           [val |-> [t |-> "*ToolResult", v |-> "nil"], err |-> "handler failed"] }

\* result.(interface{ ToMap() map[string]any })
HasToMap(x) == x.t \in {"*Text", "*Action"}

\* Text.ToMap and Action.ToMap; Action.ToMap reads a.next, which panics on
\* a nil receiver.
ToMap(x) ==
  CASE x.t = "*Action" /\ x.v = "nil" -> [t |-> "panic", v |-> "nil dereference"]
    [] x.t = "*Action" /\ x.v = "noop" -> GoMap("{action:noop,data}")
    [] x.t = "*Action" -> GoMap("{action:batch,data:{actions}}")
    [] OTHER -> GoMap("{template:text,data}")

\* (mutant of Reply: the handler's error is not looked at)
ReplyDropsError(msg, result, err) ==
  IF result = Nil THEN ResultEnv(msg, Ack)
  ELSE IF HasToMap(result) THEN ResultEnv(msg, ToMap(result))
  ELSE ResultEnv(msg, result)

\* (mutant of Reply: a ToolResult without success is reported as an error)
ReplyFailureAsError(msg, result, err) ==
  IF err # "nil" \/ result = [t |-> "*ToolResult", v |-> "fail"]
  THEN ErrorEnv(msg, "handler failed")
  ELSE IF result = Nil THEN ResultEnv(msg, Ack)
  ELSE IF HasToMap(result) THEN ResultEnv(msg, ToMap(result))
  ELSE ResultEnv(msg, result)

\* Lines 325-353: the envelope handleRequest sends for (result, err).
Reply(msg, result, err) ==
  IF err # "nil" THEN ErrorEnv(msg, err)
  ELSE IF result = Nil THEN ResultEnv(msg, Ack)
  ELSE IF HasToMap(result) THEN ResultEnv(msg, ToMap(result))
  ELSE ResultEnv(msg, result)

\* (mutant of Route: a method name that is not known is acknowledged)
RouteLenient(msg) ==
  LET method == MethodOf(msg) IN
  CASE method = "" -> [do |-> "drop"]
    [] method = "shutdown" -> [do |-> "send", env |-> ResultEnv(msg, Ack)]
    [] method = "ping" -> [do |-> "send", env |-> ResultEnv(msg, Pong)]
    [] method \in ExtensionMethods /\ method \in impl -> [do |-> "call"]
    [] OTHER -> [do |-> "send", env |-> Reply(msg, Nil, "nil")]

\* (mutant of Route: an extension method without handler is not found)
RouteStrict(msg) ==
  LET method == MethodOf(msg) IN
  CASE method = "" -> [do |-> "drop"]
    [] method = "shutdown" -> [do |-> "send", env |-> ResultEnv(msg, Ack)]
    [] method = "ping" -> [do |-> "send", env |-> ResultEnv(msg, Pong)]
    [] method \in ExtensionMethods /\ method \in impl -> [do |-> "call"]
    [] OTHER -> [do |-> "send", env |-> Reply(msg, Nil, "method not found")]

\* (mutant of Route: ping is routed like any other method name)
RouteNoPing(msg) ==
  LET method == MethodOf(msg) IN
  CASE method = "" -> [do |-> "drop"]
    [] method = "shutdown" -> [do |-> "send", env |-> ResultEnv(msg, Ack)]
    [] method \in ExtensionMethods /\ method \in impl -> [do |-> "call"]
    [] method \in ExtensionMethods /\ method \notin impl ->
         [do |-> "send", env |-> Reply(msg, Nil, "nil")]
    [] OTHER -> [do |-> "send", env |-> Reply(msg, Nil, "method not found")]

\* Lines 259-323: what handleRequest does with msg before any handler runs:
\* it drops it, calls the plugin's handler, or sends an envelope.
Route(msg) ==
  LET method == MethodOf(msg) IN
  CASE method = "" -> [do |-> "drop"]
    [] method = "shutdown" -> [do |-> "send", env |-> ResultEnv(msg, Ack)]
    [] method = "ping" -> [do |-> "send", env |-> ResultEnv(msg, Pong)]
    [] method \in ExtensionMethods /\ method \in impl -> [do |-> "call"]
    [] method \in ExtensionMethods /\ method \notin impl ->
         [do |-> "send", env |-> Reply(msg, Nil, "nil")]
    [] OTHER -> [do |-> "send", env |-> Reply(msg, Nil, "method not found")]

Panics(env) == "result" \in DOMAIN env /\ env.result.t = "panic"

\* After its handler returned h (NoReturn: no handler ran), the unit calls
\* SendMessage(env), or panics before the call.
Sending(u, h, env) ==
  IF Panics(env)
  THEN /\ crashed' = TRUE
       /\ units' = [units EXCEPT ![u].hret = h]
       /\ snd' = snd
  ELSE /\ units' = [units EXCEPT ![u].pc = "send", ![u].hret = h, ![u].env = env]
       /\ snd' = [snd EXCEPT ![u] = CallSend]
       /\ crashed' = crashed

\* handleRequest, lines 250-323, up to the call of the plugin's handler.
handleRequest(u) ==
  /\ ~crashed
  /\ units[u].pc = "start"
  /\ LET r == Route(units[u].msg) IN
       IF r.do = "drop"
       THEN /\ units' = [units EXCEPT ![u].pc = "done"]
            /\ UNCHANGED << snd, crashed >>
       ELSE IF r.do = "call"
       THEN /\ units' = [units EXCEPT ![u].pc = "handler"]
            /\ UNCHANGED << snd, crashed >>
       ELSE Sending(u, NoReturn, r.env)
  /\ UNCHANGED << tconn, mu, wire, inbuf, peerClosed, mpc, ret, rcv, done, sig,
                  nunits, impl, big, closes, hlog, hsent, tested >>

\* The plugin's handler returns; handleRequest, lines 325-353.
handlerReturn(u) ==
  /\ ~crashed
  /\ units[u].pc = "handler"
  /\ \E r \in HandlerReturns(MethodOf(units[u].msg)) :
       Sending(u, r, Reply(units[u].msg, r.val, r.err))
  /\ UNCHANGED << tconn, mu, wire, inbuf, peerClosed, mpc, ret, rcv, done, sig,
                  nunits, impl, big, closes, hlog, hsent, tested >>

\* ------------------------------------------------------------------ the host
JsonRpc == GoStr("2.0")

Request(i, m) == [jsonrpc |-> JsonRpc, id |-> GoNum(i), method |-> GoStr(m)]

\* The frames the host answers the handshake with.
HandshakeReplies ==
  { [jsonrpc |-> JsonRpc, id |-> GoNum("1"), result |-> GoMap("{success:true}")],
    [jsonrpc |-> JsonRpc, id |-> GoNum("1"), result |-> GoMap("{success:false}")],
    [jsonrpc |-> JsonRpc, id |-> GoNum("1"), result |-> GoMap("{}")],
    [jsonrpc |-> JsonRpc, id |-> GoNum("1"), result |-> GoMap("{success:'true'}")],
    [jsonrpc |-> JsonRpc, id |-> GoNum("1"), result |-> GoStr("ok")],
    [jsonrpc |-> JsonRpc, id |-> GoNum("1"), error |-> GoMap("{code:-1,message:denied}")],
    [jsonrpc |-> JsonRpc, id |-> GoNum("1")] }

\* The requests of the hosts of Spec.
Probes == { Request("7", "ping"), Request("8", "visitor_panel/render") }

MethodValues ==
  { GoStr(m) : m \in ExtensionMethods \cup ReservedMethods \cup {"foo/bar", "register", ""} }
    \cup { GoNum("5") }
IdValues == { GoNum("7"), GoNum("8") }

\* The envelopes a host can send after the handshake: every method with an
\* id, requests without id or without method, and a stray reply.
Requests ==
  { [jsonrpc |-> JsonRpc, id |-> i, method |-> m] : i \in IdValues, m \in MethodValues }
    \cup { [jsonrpc |-> JsonRpc, method |-> m] : m \in {GoStr("ping"), GoStr("foo/bar")} }
    \cup { [jsonrpc |-> JsonRpc, id |-> GoNum("7")],
           [jsonrpc |-> JsonRpc, id |-> GoNum("7"), result |-> Ack] }

HostWrites(e) ==
  /\ inbuf' = inbuf \o Frame(Marshal(e))
  /\ hlog' = Append(hlog, e)

\* The host answers the register request it has read with one of S.
HostAnswers(S) ==
  /\ ~crashed
  /\ hsent = 0
  /\ ~peerClosed
  /\ snd[Main].res = "ok"
  /\ \E e \in S : HostWrites(e)
  /\ hsent' = 1
  /\ UNCHANGED << tconn, mu, wire, peerClosed, mpc, ret, snd, rcv, done, sig,
                  units, nunits, crashed, impl, big, closes, tested >>

\* The host sends one of S, once the plugin has taken the bytes of the
\* frame before (the plugin reads the stream in order and cannot tell when
\* the bytes it has not read yet were written).
HostSends(S) ==
  /\ ~crashed
  /\ hsent \in 1..MaxReq
  /\ ~peerClosed
  /\ inbuf = << >>
  /\ \E e \in S : HostWrites(e)
  /\ hsent' = hsent + 1
  /\ UNCHANGED << tconn, mu, wire, peerClosed, mpc, ret, snd, rcv, done, sig,
                  units, nunits, crashed, impl, big, closes >>

\* The host writes one of S without waiting for the plugin to take the
\* frames before it.
HostQueues(S) ==
  /\ ~crashed
  /\ hsent \in 1..MaxReq
  /\ ~peerClosed
  /\ \E e \in S : HostWrites(e)
  /\ hsent' = hsent + 1
  /\ UNCHANGED << tconn, mu, wire, peerClosed, mpc, ret, snd, rcv, done, sig,
                  units, nunits, crashed, impl, big, closes, tested >>

HostReply == HostAnswers(HandshakeReplies)

HostQueue == HostQueues(Probes)

\* Payloads that are no JSON object: no bytes, the array [], text cut off
\* after its brace, a string, null.
Garbage ==
  { << >>, << 91, 93 >>, << LBrace >>, << JsonCode(JStr("ok")) >>, NullPayload }

\* The host writes a whole frame with a payload of Garbage.
HostGarble ==
  /\ ~crashed
  /\ hsent \in 1..MaxReq
  /\ ~peerClosed
  /\ \E g \in Garbage : inbuf' = inbuf \o Frame(g)
  /\ hsent' = hsent + 1
  /\ UNCHANGED << tconn, mu, wire, peerClosed, mpc, ret, snd, rcv, done, sig,
                  units, nunits, crashed, impl, big, closes, hlog, tested >>

\* The envelopes of a peer that is written in Go with this transport: what
\* it passes to SendMessage holds Go values, an int where the code writes an
\* integer literal (as in register's "id": 1).
Echoes ==
  { RegisterReq,
    [jsonrpc |-> JsonRpc, id |-> GoInt("7"), method |-> GoStr("ping")],
    Request("8", "visitor_panel/render") }

\* The peer sends one of Echoes with SendMessage.
PeerSend == HostQueues(Echoes)

HostSend == HostSends(Probes) /\ tested' = tested

\* A host that accepts the registration.
HostAccept ==
  HostAnswers({ [jsonrpc |-> JsonRpc, id |-> GoNum("1"), result |-> GoMap("{success:true}")] })

\* The host sends the request under test: any envelope, once.
HostTest == ~tested /\ HostSends(Requests) /\ tested' = TRUE

\* The frame the host is cut off in the middle of, and where: nowhere,
\* inside the prefix, after the prefix, inside the payload.
CutFrame == Frame(Marshal(Request("7", "ping")))
CutPoints == {0, 2, 4, 6}

\* The host closes the stream: at a frame boundary, or after the first k
\* bytes of a frame.
HostClose ==
  /\ ~crashed
  /\ tconn = "conn"
  /\ ~peerClosed
  /\ peerClosed' = TRUE
  /\ \E k \in CutPoints : inbuf' = inbuf \o SubSeq(CutFrame, 1, k)
  /\ UNCHANGED << tconn, mu, wire, mpc, ret, snd, rcv, done, sig, units, nunits,
                  crashed, impl, big, closes, hlog, hsent, tested >>

\* The steps of the plugin process.
Plugin ==
  \/ Connect
  \/ registerSent
  \/ registerReply
  \/ ReaderLoop
  \/ \E p \in Tasks : SendLock(p)
  \/ \E p \in Tasks : SendPrefix(p)
  \/ \E p \in Tasks : SendPayload(p)
  \/ \E c \in Callers : RecvCheck(c)
  \/ \E c \in Callers : RecvPrefix(c)
  \/ \E c \in Callers : RecvPayload(c)
  \/ \E u \in UnitIds : handleRequest(u)
  \/ \E u \in UnitIds : handlerReturn(u)

\* Run against any host, with signals.
Next ==
  \/ Plugin
  \/ Select
  \/ Close
  \/ Signal
  \/ HostReply
  \/ HostSend
  \/ HostClose

Spec == Init /\ [][Next]_vars

\* Run against a host that accepts the registration, keeps the stream open
\* and sends one request of any kind among the others; no signal arrives.
RouteNext ==
  \/ Plugin
  \/ HostAccept
  \/ HostSend
  \/ HostTest

RouteSpec == Init /\ [][RouteNext]_vars

\* The scheduling of RouteSpec's plugin: every goroutine that can take a
\* step takes it, writes and reads end, and sync.Mutex hands the lock to
\* every waiter in turn.  No handler is required to return.
Fairness ==
  /\ WF_vars(registerSent)
  /\ WF_vars(registerReply)
  /\ WF_vars(ReaderLoop)
  /\ \A c \in Callers : WF_vars(RecvCheck(c) \/ RecvPrefix(c) \/ RecvPayload(c))
  /\ \A p \in Tasks : SF_vars(SendLock(p))
  /\ \A p \in Tasks : WF_vars(SendPrefix(p) \/ SendPayload(p))
  /\ \A u \in UnitIds : WF_vars(handleRequest(u))

\* Run against a host that accepts the registration and sends the requests
\* of Probes, under the scheduling above.
LiveNext ==
  \/ Plugin
  \/ HostAccept
  \/ HostSend

LiveSpec == Init /\ [][LiveNext]_vars /\ Fairness

\* The transport used as Run uses it, against a host that accepts the
\* registration, and closed at any moment, possibly more than once.
ApiNext ==
  \/ Plugin
  \/ HostAccept
  \/ HostSend
  \/ Close
  \/ CloseCall

ApiSpec == Init /\ [][ApiNext]_vars

\* Run against a host that accepts the registration and writes its
\* requests back to back.
QueueNext ==
  \/ Plugin
  \/ HostAccept
  \/ HostQueue

QueueSpec == Init /\ [][QueueNext]_vars

\* Run, with signals, against a host that accepts the registration and
\* writes requests and frames that are no envelopes, back to back.
GarbleNext ==
  \/ Plugin
  \/ Select
  \/ Close
  \/ Signal
  \/ HostAccept
  \/ HostQueue
  \/ HostGarble

GarbleSpec == Init /\ [][GarbleNext]_vars

\* Run against a peer that uses this transport: it accepts the registration
\* and writes its envelopes back to back.
LoopNext ==
  \/ Plugin
  \/ HostAccept
  \/ PeerSend

LoopSpec == Init /\ [][LoopNext]_vars

\* SendMessage on data of any length an int can hold, the data itself left
\* out: the lengths around every byte boundary of the prefix, and past it.
Lengths == { << d2, d1, d0 >> : d2 \in {0, 1}, d1 \in {0, 1, 255, 256, 65535},
                                 d0 \in {0, 1, 255, 256, 65535} }

LengthInit == Constructed /\ big \in { [NoBulk EXCEPT !.len = l] : l \in Lengths }

\* binary.Write(t.conn, binary.BigEndian, length) for this data.
FramePrefix ==
  /\ big.prefix = << >>
  /\ big' = [big EXCEPT !.prefix = PrefixOfLength(big.len)]
  /\ UNCHANGED << tconn, mu, wire, inbuf, peerClosed, mpc, ret, snd, rcv, done,
                  sig, units, nunits, crashed, impl, closes, hlog, hsent, tested >>

\* t.conn.Write(data) for this data: all len(data) bytes follow the prefix.
FramePayload ==
  /\ big.prefix # << >>
  /\ ~big.sent
  /\ big' = [big EXCEPT !.sent = TRUE]
  /\ UNCHANGED << tconn, mu, wire, inbuf, peerClosed, mpc, ret, snd, rcv, done,
                  sig, units, nunits, crashed, impl, closes, hlog, hsent, tested >>

LengthNext ==
  \/ FramePrefix
  \/ FramePayload

LengthSpec == LengthInit /\ [][LengthNext]_vars

\* ================================================================ claims
\* What the peer makes of the bytes b: the payloads of the whole frames it
\* can cut off the front, and the bytes that are left.
RECURSIVE PeerFrames(_)
PeerFrames(b) ==
  IF Len(b) < 4 THEN << >>
  ELSE LET n == FromBE32(SubSeq(b, 1, 4)) IN
       IF Len(b) < 4 + n THEN << >>
       ELSE << SubSeq(b, 5, 4 + n) >> \o PeerFrames(SubSeq(b, 5 + n, Len(b)))

RECURSIVE PeerRest(_)
PeerRest(b) ==
  IF Len(b) < 4 THEN b
  ELSE LET n == FromBE32(SubSeq(b, 1, 4)) IN
       IF Len(b) < 4 + n THEN b ELSE PeerRest(SubSeq(b, 5 + n, Len(b)))

NoWriteFailure == \A p \in Tasks : snd[p].res \notin {"wprefix", "wdata"}

\* The tasks whose SendMessage has written its whole frame / is writing.
Sent == { p \in Tasks : snd[p].res = "ok" }
Writing == { p \in Tasks : snd[p].pc \in {"wprefix", "wpayload"} }

\* Envelope e as a JSON reader sees it: every number is a float64.
AsJson(e) == [ k \in DOMAIN e |-> UnmarshalValue(MarshalValue(e[k])) ]

\* C1: with any number of tasks in SendMessage and no failed write, the
\* stream is a concatenation of whole frames: every frame the peer cuts off
\* is the encoding of one envelope a task sent, it decodes to that envelope,
\* there is one frame per finished send, and the bytes left over are at most
\* the prefix of the one send that holds the mutex.
C1_WholeFrames ==
  LET frames == PeerFrames(wire)
      sent == { [bytes |-> Marshal(EnvOf(p)), env |-> AsJson(EnvOf(p))] : p \in Sent }
  IN
  NoWriteFailure =>
    /\ \A i \in 1..Len(frames) :
         \E s \in sent :
           /\ frames[i] = s.bytes
           /\ ValidPayload(frames[i])
           /\ Unmarshal(frames[i]) = s.env
    /\ Len(frames) = Cardinality(Sent)
    /\ LET rest == PeerRest(wire) IN
       \/ rest = << >>
       \/ \E p \in Writing :
            /\ mu = p
            /\ snd[p].pc = "wpayload"
            /\ rest = Prefix(snd[p].data)

\* Two units sent different envelopes while in SendMessage together; the
\* frame of the second unit is on the stream before the frame of the first.
C1_Witness ==
  LET frames == PeerFrames(wire) IN
  /\ NoWriteFailure
  /\ {1, 2} \subseteq Sent
  /\ units[1].env # units[2].env
  /\ Len(frames) = 3
  /\ frames[2] = Marshal(units[2].env)
  /\ frames[3] = Marshal(units[1].env)

\* The id of the envelope in payload d, and of the request of unit u.
IdIn(d) == Get(Unmarshal(d), "id")
RequestId(u) == Get(units[u].msg, "id")

\* The ids of the envelopes in the frames fs after the first, which is the
\* register request.
ReplyIds(fs) == [ k \in 2..Len(fs) |-> IdIn(fs[k]) ]

\* C2: every reply envelope a unit sends, result or error, carries the id
\* of the request that started the unit: in the envelope it passes to
\* SendMessage, in the bytes it writes, and on the stream, where for every
\* id there are as many reply frames as answered requests with that id,
\* in whatever order the replies were written.
C2_ReplyIds ==
  LET ids == ReplyIds(PeerFrames(wire)) IN
  /\ \A u \in UnitIds :
       units[u].pc = "send" =>
         /\ "id" \in DOMAIN units[u].env
         /\ units[u].env.id = RequestId(u)
         /\ DOMAIN units[u].env \in { {"jsonrpc", "id", "result"},
                                      {"jsonrpc", "id", "error"} }
  /\ \A u \in UnitIds :
       snd[u].pc \in {"wprefix", "wpayload"} => IdIn(snd[u].data) = RequestId(u)
  /\ \A i \in IdValues \cup {Nil} :
       Cardinality({ k \in DOMAIN ids : ids[k] = i })
         = Cardinality({ u \in UnitIds \cap Sent : RequestId(u) = i })

\* The request with id 7 was read before the request with id 8, and the
\* reply with id 8 is on the stream before the reply with id 7.
C2_Witness ==
  LET frames == PeerFrames(wire) IN
  /\ {1, 2} \subseteq Sent
  /\ RequestId(1) = GoNum("7")
  /\ RequestId(2) = GoNum("8")
  /\ Len(frames) = 3
  /\ IdIn(frames[2]) = GoNum("8")
  /\ IdIn(frames[3]) = GoNum("7")

\* C3: the reading goroutine does not wait for a unit: every request the
\* host has written is read and gets a unit, and the unit answers it unless
\* its own handler is the one that does not return; a handler that never
\* returns holds up no later request.
C3_ReaderNeverWaits ==
  \A k \in UnitIds :
    (hsent > k) ~> (nunits >= k /\ (units[k].pc = "handler" \/ snd[k].res = "ok"))

\* The handler of the first request has not returned, the second request
\* has been answered and the reader is in its next RecvMessage.
C3_Witness ==
  /\ units[1].pc = "handler"
  /\ snd[2].res = "ok"
  /\ rcv["reader"].pc = "r87"

Reserved(u) == units[u].pc # "idle" /\ MethodOf(units[u].msg) \in ReservedMethods

Unknown(u) ==
  /\ units[u].pc # "idle"
  /\ MethodOf(units[u].msg) \notin {""} \cup ReservedMethods \cup ExtensionMethods

MethodNotFound(u) ==
  [ jsonrpc |-> GoStr("2.0"), id |-> RequestId(u),
    error |-> GoMap("{code:-32601,message:method not found}") ]

SuccessAck(u) ==
  [ jsonrpc |-> GoStr("2.0"), id |-> RequestId(u), result |-> GoMap("{success:true}") ]

\* The reply frames on the stream that decode to envelope e.
FramesOf(e) ==
  LET frames == PeerFrames(wire)
      decoded == Unmarshal(Marshal(e))
  IN { k \in 2..Len(frames) : Unmarshal(frames[k]) = decoded }

ReaderReads == rcv["reader"].pc \in {"r81", "r87", "r96", "ret"} /\ rcv["reader"].err = "none"

\* C5: a request with a method name that is neither reserved nor an
\* extension method calls no handler and gets one error envelope with code
\* -32601 and the request's id, never a result; the send succeeds and the
\* frame is on the stream once; the process has not crashed, the connection
\* is open and the reading goroutine goes on receiving.
C5_MethodNotFound ==
  \A u \in UnitIds :
    Unknown(u) =>
      /\ units[u].pc \in {"start", "send"}
      /\ units[u].hret = NoReturn
      /\ units[u].pc = "send" =>
           /\ units[u].env = MethodNotFound(u)
           /\ "result" \notin DOMAIN units[u].env
           /\ snd[u].pc = "ret" => snd[u].res = "ok"
           /\ Cardinality(FramesOf(MethodNotFound(u))) = IF u \in Sent THEN 1 ELSE 0
      /\ ~crashed
      /\ tconn = "conn"
      /\ ReaderReads

\* The error for foo/bar is on the stream, and the ping read after it has
\* been answered too.
C5_Witness ==
  /\ Unknown(1)
  /\ MethodOf(units[1].msg) = "foo/bar"
  /\ Cardinality(FramesOf(MethodNotFound(1))) = 1
  /\ MethodOf(units[2].msg) = "ping"
  /\ 2 \in Sent

\* Unit u was started for an extension method the plugin has no handler for.
Unimplemented(u) ==
  /\ units[u].pc # "idle"
  /\ MethodOf(units[u].msg) \in ExtensionMethods
  /\ MethodOf(units[u].msg) \notin impl

\* C6: for each of the seven extension methods, a plugin without the
\* handler answers with the result {"success": true} and the request's id,
\* never with an error envelope, and calls no handler.
C6_UnimplementedAck ==
  \A u \in UnitIds :
    Unimplemented(u) =>
      /\ units[u].pc \in {"start", "send"}
      /\ units[u].hret = NoReturn
      /\ units[u].pc = "send" =>
           /\ units[u].env = SuccessAck(u)
           /\ "error" \notin DOMAIN units[u].env
           /\ snd[u].pc = "ret" => snd[u].res = "ok"
           /\ u \in Sent => FramesOf(SuccessAck(u)) # {}

\* tool/execute was sent to a plugin without ToolHandler and the
\* acknowledgment is on the stream.
C6_Witness ==
  \E u \in UnitIds :
    /\ Unimplemented(u)
    /\ MethodOf(units[u].msg) = "tool/execute"
    /\ u \in Sent
    /\ FramesOf(SuccessAck(u)) # {}

\* What a handler returns when it returns no value: a nil Template or any,
\* a nil *Action, a nil *ToolResult, each with a nil error.
NoValue ==
  { [val |-> Nil, err |-> "nil"],
    [val |-> [t |-> "*Action", v |-> "nil"], err |-> "nil"],
    [val |-> [t |-> "*ToolResult", v |-> "nil"], err |-> "nil"] }

\* C7: when the handler of a unit returned no value, the unit sends the
\* result {"success": true} with the request's id and the process goes on.
C7_NoValueIsAck ==
  \A u \in UnitIds :
    units[u].hret \in NoValue =>
      /\ ~crashed
      /\ units[u].pc = "send"
      /\ units[u].env = SuccessAck(u)

\* The handshake reply register received, and whether it has a result
\* object whose success member is the boolean true.
HandshakeRead == rcv["main"].pc = "ret" /\ rcv["main"].err = "none"
ReplySaysSuccess ==
  /\ "result" \in DOMAIN rcv["main"].msg
  /\ rcv["main"].msg.result \in { GoMap("{success:true}"), GoMap("{success:true,content}") }

\* The reading goroutine of the dispatch loop has been started.
LoopStarted == rcv["reader"].pc # "idle"

\* C8: the dispatch loop is started only after a handshake reply whose
\* result has success true; after any other reply (no result, success false
\* or missing or not a boolean, a result that is no object, an error
\* envelope) Run returns a registration failure, the one receive of the
\* handshake stays the only one and no unit is started.
C8_RegistrationGate ==
  /\ LoopStarted \/ nunits > 0 \/ mpc = "select" => HandshakeRead /\ ReplySaysSuccess
  /\ HandshakeRead /\ ~ReplySaysSuccess /\ mpc # "reg_recv" =>
       /\ ret = [kind |-> "registration", err |-> "rejected"]
       /\ mpc \in {"closing", "returned"}
       /\ ~LoopStarted
       /\ nunits = 0
       /\ \A u \in UnitIds : units[u] = IdleUnit

\* The host answered success false and then wrote a request; Run has
\* returned the registration failure and the request is still unread.
C8_Witness ==
  /\ HandshakeRead
  /\ Get(rcv["main"].msg, "result") = GoMap("{success:false}")
  /\ ret = [kind |-> "registration", err |-> "rejected"]
  /\ mpc = "returned"
  /\ inbuf # << >>
  /\ ~LoopStarted

ReaderExited == rcv["reader"].pc = "exit"

\* The state of Run once the reading goroutine has ended: its error is in
\* done for the select to take, or Run has returned it.
C9_State ==
  /\ ReaderExited =>
       /\ rcv["reader"].err # "none"
       /\ \/ done = << rcv["reader"].err >> /\ ret.kind \in {"none", "nil"}
          \/ done = << >> /\ ret = [kind |-> "lost", err |-> rcv["reader"].err]
  /\ ret.kind = "lost" => ReaderExited /\ ret.err = rcv["reader"].err

\* The steps of Run around the end of the loop.
C9_Step ==
  /\ ReaderExited => rcv'["reader"] = rcv["reader"]
  /\ rcv["reader"].pc = "ret" /\ rcv["reader"].err # "none" /\ rcv'["reader"] # rcv["reader"] =>
       /\ rcv'["reader"] = [rcv["reader"] EXCEPT !.pc = "exit"]
       /\ done' = Append(done, rcv["reader"].err)
       /\ UNCHANGED << units, nunits >>
  /\ mpc = "select" /\ done # << >> /\ ~sig /\ mpc' # mpc =>
       ret' = [kind |-> "lost", err |-> Head(done)]
  /\ mpc = "select" /\ mpc' # mpc =>
       \/ done # << >> /\ ret' = [kind |-> "lost", err |-> Head(done)]
       \/ sig /\ ret' = [kind |-> "nil", err |-> "none"]

RecvReturns(c) == rcv[c].pc \in {"r81", "r87", "r96"} /\ rcv'[c].pc = "ret"

\* The peer has closed and the stream holds n bytes of the frame being read.
ClosedAfter(c, n) == tconn = "conn" /\ peerClosed /\ Len(inbuf) = n

\* C10: RecvMessage returns io.EOF itself exactly when the peer has closed
\* and no byte of the next frame has been read; closed after 1 to 3 bytes
\* of the prefix, or after the prefix and before the whole payload, it
\* returns another error, never io.EOF and never a message.
C10_EndOfStream ==
  [][\A c \in Callers :
       RecvReturns(c) =>
         /\ rcv'[c].err = "EOF" <=> (rcv[c].pc = "r87" /\ ClosedAfter(c, 0))
         /\ \A n \in 1..3 :
              rcv[c].pc = "r87" /\ ClosedAfter(c, n) => rcv'[c].err \notin {"EOF", "none"}
         /\ \A n \in 0..Len(CutFrame) :
              rcv[c].pc = "r96" /\ n < rcv[c].len /\ ClosedAfter(c, n) =>
                rcv'[c].err \notin {"EOF", "none"}]_vars

\* The reader got end of stream after it had dispatched a request.
C10_Witness ==
  /\ rcv["reader"].err = "EOF"
  /\ done = << "EOF" >>
  /\ nunits >= 1

\* The steps of the transport once a Close has returned.
C11_Step ==
  closes # << >> =>
    /\ wire' = wire
    /\ closes' # closes =>
         /\ closes' = Append(closes, "nil")
         /\ UNCHANGED << tconn, mu, wire, inbuf, peerClosed, snd, rcv >>
    /\ \A p \in Tasks :
         snd[p].pc = "lock" /\ snd'[p] # snd[p] =>
           snd'[p] = [pc |-> "ret", data |-> << >>, res |-> "notconn"] /\ mu' = mu
    /\ \A c \in Callers :
         rcv[c].pc = "r81" /\ rcv'[c] # rcv[c] =>
           /\ rcv'[c] = [pc |-> "ret", len |-> 0, err |-> "notconn", msg |-> << >>]
           /\ inbuf' = inbuf

\* C11: once a Close has returned the transport has no conn; a further
\* Close returns nil and changes nothing; a SendMessage or RecvMessage that
\* starts then returns the not-connected error, and no byte is written to
\* or taken from the stream.
C11_CloseIdempotent ==
  /\ [](closes # << >> => tconn = "nil" /\ \A i \in DOMAIN closes : closes[i] = "nil")
  /\ [][C11_Step]_vars

\* Close has returned twice, and a SendMessage and a RecvMessage that
\* started after it have returned not connected.
C11_Witness ==
  /\ Len(closes) = 2
  /\ \E p \in Tasks : snd[p].res = "notconn"
  /\ rcv["reader"].err = "notconn"

\* A SendMessage has failed with a write error.
WriteFailed == \E p \in Tasks : snd[p].res \in {"wprefix", "wdata"}

\* C12: after a SendMessage failed with a write error, on the prefix or on
\* the payload, no SendMessage succeeds any more and no byte is written to
\* the stream, so nothing follows a partially written frame.
C12_BrokenAfterWriteError ==
  [][WriteFailed =>
       /\ wire' = wire
       /\ \A p \in Tasks : snd'[p].res = "ok" => snd[p].res = "ok"]_vars

\* Unit u calls SendMessage with a value json.Marshal cannot encode.
Unserializable(u) == units[u].pc = "send" /\ ~MarshalOK(units[u].env)

C13_State ==
  \A u \in UnitIds :
    Unserializable(u) =>
      /\ snd[u].pc \in {"lock", "ret"}
      /\ mu # u
      /\ snd[u].pc = "ret" =>
           /\ snd[u].res = "marshal"
           /\ tconn = "conn"
           /\ ReaderReads
           /\ \A p \in Tasks : snd[p].res \in {"none", "ok", "marshal"}
           /\ Len(PeerFrames(wire)) = Cardinality(Sent)

C13_Step ==
  \A u \in UnitIds :
    Unserializable(u) /\ snd[u].pc = "lock" /\ snd'[u] # snd[u] =>
      /\ snd'[u].res = "marshal"
      /\ UNCHANGED << wire, inbuf, tconn, peerClosed, mu, rcv >>

\* C13: a SendMessage whose value cannot be encoded returns the
\* serialization error with nothing written, the conn and the stream as
\* they were and the mutex free; the other sends still succeed whole and
\* the reader keeps receiving.
C13_SerializationLocal == []C13_State /\ [][C13_Step]_vars

\* Unit 1's SendMessage failed to encode; after that unit 2 took the mutex
\* and is writing, and the reader is in RecvMessage.
C13_Witness ==
  /\ Unserializable(1)
  /\ snd[1].res = "marshal"
  /\ snd[2].pc = "wpayload"
  /\ rcv["reader"].pc = "r87"

\* Unit u has left SendMessage; its reply is on the stream.
Finished(u) == units[u].pc = "send" /\ snd[u].pc = "ret"
Replied(u) ==
  \E k \in 2..Len(PeerFrames(wire)) : IdIn(PeerFrames(wire)[k]) = RequestId(u)

\* C14: no request is left without a reply: a unit that is through with
\* its request, whatever failed on the way, has put an envelope with the
\* request's id on the stream, and the process has not crashed.
C14_AlwaysReplied ==
  \A u \in UnitIds : Finished(u) => Replied(u) /\ ~crashed

\* The handler of unit u returned a non-nil error.
HandlerFailed(u) == units[u].hret.err \notin {"none", "nil"}

\* The reply frames on the stream with the id of unit u's request and an
\* error member / a result member.
ErrorFrames(u) ==
  LET frames == PeerFrames(wire) IN
  { k \in 2..Len(frames) :
      IdIn(frames[k]) = RequestId(u) /\ "error" \in DOMAIN Unmarshal(frames[k]) }
ResultFrames(u) ==
  LET frames == PeerFrames(wire) IN
  { k \in 2..Len(frames) :
      IdIn(frames[k]) = RequestId(u) /\ "result" \in DOMAIN Unmarshal(frames[k]) }

\* C15: when OnToolExecute returns a non-nil error the unit sends an error
\* envelope with the request's id and no result; the send succeeds, the
\* error frame is on the stream, the process has not crashed and the reader
\* goes on receiving.
C15_HandlerError ==
  \A u \in UnitIds :
    HandlerFailed(u) =>
      /\ MethodOf(units[u].msg) = "tool/execute"
      /\ units[u].pc = "send"
      /\ DOMAIN units[u].env = {"jsonrpc", "id", "error"}
      /\ units[u].env.id = RequestId(u)
      /\ units[u].env.error.t = "map"
      /\ ~crashed
      /\ ReaderReads
      /\ snd[u].pc = "ret" => snd[u].res = "ok"
      /\ u \in Sent => ErrorFrames(u) # {}

\* The error for the failed tool call is on the stream, and the unit of the
\* request read after it is writing its reply.
C15_Witness ==
  /\ HandlerFailed(1)
  /\ 1 \in Sent
  /\ ErrorFrames(1) # {}
  /\ snd[2].pc = "wpayload"

\* The handler of unit u returned a ToolResult with success false and a nil
\* error.
ToolFailure(u) == units[u].hret = [val |-> [t |-> "*ToolResult", v |-> "fail"], err |-> "nil"]

\* C16: a ToolResult with success false and no error is sent as the result
\* of a result envelope with the request's id, not as an error envelope,
\* and that is what the host decodes.
C16_FailureIsData ==
  \A u \in UnitIds :
    ToolFailure(u) =>
      /\ units[u].pc = "send"
      /\ units[u].env =
           [ jsonrpc |-> GoStr("2.0"), id |-> RequestId(u), result |-> units[u].hret.val ]
      /\ snd[u].pc = "ret" => snd[u].res = "ok"
      /\ u \in Sent =>
           FramesOf([ jsonrpc |-> GoStr("2.0"), id |-> RequestId(u),
                      result |-> GoMap("{success:false,content}") ]) # {}

\* The result envelope with the failed ToolResult is on the stream.
C16_Witness ==
  \E u \in UnitIds :
    /\ ToolFailure(u)
    /\ u \in Sent
    /\ ResultFrames(u) # {}
    /\ ErrorFrames(u) = {}

\* The acknowledgment of a shutdown request has been written.
ShutdownAcked ==
  \E u \in UnitIds : MethodOf(units[u].msg) = "shutdown" /\ u \in Sent

\* C17: once the acknowledgment of a shutdown request is sent the dispatch
\* loop stops: it issues no further receive and starts no unit (and Run
\* returns).
C17_ShutdownStops ==
  [][ShutdownAcked =>
       /\ nunits' = nunits
       /\ rcv'["reader"].pc = "r81" => rcv["reader"].pc = "r81"]_vars

\* Run has taken the termination signal and is at its deferred Close.
SignalTaken == mpc = "closing" /\ ret = [kind |-> "nil", err |-> "none"]

\* C18: after the termination signal Run returns nil without waiting for
\* any unit: whatever the units are doing, in a handler or inside
\* SendMessage, Run's last step, the deferred Close, can be taken.
C18_ReturnsWithoutWaiting ==
  SignalTaken => ENABLED Close

\* C19: when Run has returned after a successful Connect, by a failed
\* registration, a lost connection or a termination signal, Close has been
\* called and the transport has no conn; Run's last step is that Close.
C19_ClosedOnReturn ==
  /\ [](mpc = "returned" /\ ret.kind # "connect" =>
          /\ ret.kind \in {"registration", "lost", "nil"}
          /\ tconn = "nil"
          /\ closes = << "nil" >>)
  /\ [][mpc' = "returned" /\ mpc # "returned" /\ mpc # "connect" =>
          /\ mpc = "closing"
          /\ tconn = "conn" /\ tconn' = "nil"
          /\ closes' = Append(closes, "nil")]_vars

\* Run has returned nil after a signal with the conn closed, while a unit
\* is still in its handler.
C19_Witness ==
  /\ mpc = "returned"
  /\ ret.kind = "nil"
  /\ tconn = "nil"
  /\ closes = << "nil" >>
  /\ \E u \in UnitIds : units[u].pc = "handler"

\* A call of RecvMessage by c is in progress.
InRecv(c) == rcv[c].pc \in {"r81", "r87", "r96"}

\* What RecvMessage returns for the k-th envelope the host wrote.
Arrived(k) == AsJson(hlog[k])

\* C20: at most one RecvMessage is in progress at any time: register's
\* receive has returned before the reading goroutine starts, and that
\* goroutine is the only caller afterwards; so the handshake reply is the
\* first envelope the host wrote and the k-th unit has the k-th request
\* after it, in the order of arrival.
C20_OneReceiver ==
  /\ ~(InRecv("main") /\ InRecv("reader"))
  /\ LoopStarted => rcv["main"].pc = "ret"
  /\ HandshakeRead => rcv["main"].msg = Arrived(1)
  /\ rcv["reader"].pc = "ret" /\ rcv["reader"].err = "none" =>
       rcv["reader"].msg = Arrived(nunits + 2)
  /\ \A k \in 1..nunits : units[k].msg = Arrived(k + 1)

\* Two different requests were read in the order the host wrote them, the
\* second before the unit of the first took a step.
C20_Witness ==
  /\ nunits = 2
  /\ Len(hlog) = 3
  /\ hlog[2] # hlog[3]
  /\ units[1].msg = Arrived(2)
  /\ units[2].msg = Arrived(3)
  /\ units[1].pc = "start"

\* The length a receiver reads from the 4 bytes b of a prefix, in the
\* digits of IntLen.
PrefixValue(b) == << 0, b[1] * 256 + b[2], b[3] * 256 + b[4] >>

\* C21: the 4-byte big-endian prefix of every frame SendMessage produces
\* equals the exact byte length of its payload: once the payload of a send
\* is on the stream, the prefix written before it reads as the length of
\* that payload, whatever the length (a payload too long for 32 bits is
\* never sent behind a prefix that differs from its length).
C21_PrefixIsLength ==
  big.sent => PrefixValue(big.prefix) = big.len

\* C21 for the frames of the running plugin: the prefix of every send in
\* progress reads as the length of its data.
C21_SmallFrames ==
  \A p \in Tasks : snd[p].pc \in {"wprefix", "wpayload"} =>
     PrefixValue(Prefix(snd[p].data)) = IntLen(Len(snd[p].data))

\* The bytes of the envelopes the host wrote from the k-th on.
RECURSIVE FramesFrom(_)
FramesFrom(k) ==
  IF k > Len(hlog) THEN << >> ELSE Frame(Marshal(hlog[k])) \o FramesFrom(k + 1)

\* The number of envelopes RecvMessage has returned so far.
Returned ==
  (IF HandshakeRead THEN 1 ELSE 0) + nunits
    + (IF rcv["reader"].pc = "ret" /\ rcv["reader"].err = "none" THEN 1 ELSE 0)

\* The callers of RecvMessage that have read a prefix and not the payload.
Halfway == { c \in Callers : rcv[c].pc = "r96" }

\* What is left of the stream after the calls of RecvMessage so far, when
\* each has taken the 4 + length bytes of its frame and nothing else.
Unread ==
  IF Halfway = {} THEN FramesFrom(Returned + 1)
  ELSE Marshal(hlog[Returned + 1]) \o FramesFrom(Returned + 2)

C22_State ==
  /\ \A k \in 1..Len(hlog) : Unmarshal(Marshal(hlog[k])) = AsJson(hlog[k])
  /\ inbuf = Unread
  /\ \A c \in Halfway : rcv[c].len = Len(Marshal(hlog[Returned + 1]))
  /\ HandshakeRead => rcv["main"].msg = AsJson(hlog[1])
  /\ rcv["reader"].pc = "ret" => rcv["reader"].msg = AsJson(hlog[Returned])
  /\ \A k \in 1..nunits : units[k].msg = AsJson(hlog[k + 1])

C22_Step ==
  \A c \in Callers :
    /\ rcv[c].pc = "r87" /\ rcv'[c].pc = "r96" => Len(inbuf') = Len(inbuf) - 4
    /\ rcv[c].pc = "r96" /\ rcv'[c].pc = "ret" =>
         /\ Len(inbuf') = Len(inbuf) - rcv[c].len
         /\ rcv'[c].msg = Unmarshal(SubSeq(inbuf, 1, rcv[c].len))

\* C22: framing round-trips up to the types of JSON: for every envelope E,
\* RecvMessage applied to the bytes written for E returns E as JSON reads it
\* (every number a float64); k frames written back to back are returned by
\* k successive calls in the same order, each call taking exactly the 4
\* bytes of the prefix and the length bytes of the payload of its frame.
C22_RoundTrip == []C22_State /\ [][C22_Step]_vars

\* Three frames were written back to back before the second was read; the
\* second, written from an int id, has been returned and the third is
\* still whole on the stream.
C22_Witness ==
  /\ Len(hlog) = 3
  /\ hlog[2].id = GoInt("7")
  /\ nunits = 1
  /\ units[1].msg = AsJson(hlog[2])
  /\ rcv["reader"].pc = "r87"
  /\ inbuf = Frame(Marshal(hlog[3]))

\* C22 as stated: RecvMessage returns the envelope E itself that was
\* passed to SendMessage.
C22_Original ==
  /\ HandshakeRead => rcv["main"].msg = hlog[1]
  /\ \A k \in 1..nunits : units[k].msg = hlog[k + 1]

\* The handler of unit u has returned (for a unit that calls no handler:
\* the unit is past its routing).
PastHandler(u) ==
  \/ units[u].pc \in {"send", "done"}
  \/ units[u].pc = "handler" /\ units[u].hret # NoReturn

\* Unit u has called SendMessage.
CalledSend(u) == units[u].pc = "send" /\ snd[u].pc # "idle"

\* C23: every received envelope with a non-empty string method, with or
\* without an id, causes exactly one SendMessage call by its unit: once its
\* handler (if any) has returned, the unit has made its one call; an
\* envelope with no method, an empty method or a method that is no string
\* causes no send at all.
C23_OneSend ==
  \A u \in 1..nunits :
    IF MethodOf(units[u].msg) = ""
    THEN ~CalledSend(u) /\ snd[u] = IdleSend
    ELSE PastHandler(u) => CalledSend(u)

\* The payload d is not decoded into an envelope.
Undecodable(d) == ~ValidPayload(d) /\ d # NullPayload

\* The payload the call of c is about to take from the stream, whole.
PayloadAhead(c) == SubSeq(inbuf, 1, rcv[c].len)
ReadsWhole(c) ==
  /\ rcv[c].pc = "r96"
  /\ rcv'[c].pc = "ret"
  /\ rcv[c].len = 0 \/ (tconn = "conn" /\ Len(inbuf) >= rcv[c].len)

\* The reading goroutine has ended because a payload did not decode.
DecodeEnded == ReaderExited /\ rcv["reader"].err = "unmarshal"

C24_State ==
  DecodeEnded =>
    \/ done = << "unmarshal" >> /\ ret.kind \in {"none", "nil"}
    \/ done = << >> /\ ret = [kind |-> "lost", err |-> "unmarshal"]

C24_Step ==
  /\ \A c \in Callers : ReadsWhole(c) =>
       /\ inbuf' = SubSeq(inbuf, rcv[c].len + 1, Len(inbuf))
       /\ rcv'[c] = IF Undecodable(PayloadAhead(c)) THEN RecvRet("unmarshal", << >>)
                    ELSE IF PayloadAhead(c) = NullPayload THEN RecvRet("none", << >>)
                    ELSE RecvRet("none", Unmarshal(PayloadAhead(c)))
  /\ rcv["reader"].pc = "ret" /\ rcv["reader"].err = "unmarshal"
       /\ rcv'["reader"] # rcv["reader"] =>
         /\ rcv'["reader"].pc = "exit"
         /\ done' = << "unmarshal" >>
  /\ DecodeEnded =>
       /\ rcv'["reader"] = rcv["reader"]
       /\ Len(inbuf') >= Len(inbuf)
       /\ SubSeq(inbuf', 1, Len(inbuf)) = inbuf
  /\ mpc = "select" /\ done = << "unmarshal" >> /\ ~sig /\ mpc' # mpc =>
       ret' = [kind |-> "lost", err |-> "unmarshal"]

\* C24 (as the code has it): a whole frame whose payload is not decoded
\* into an envelope (invalid JSON, a JSON value that is neither an object
\* nor null, no bytes at all) ends the dispatch loop like a broken
\* connection: RecvMessage returns the decoding error with the bytes after
\* the frame left on the stream, the reading goroutine hands the error to
\* Run and reads no later frame, and Run returns it unless a signal is
\* pending too; a payload null is read as an envelope without keys and
\* the loop goes on.
C24_DecodeEndsLoop == []C24_State /\ [][C24_Step]_vars

\* Run has returned the decoding error and a whole request that was written
\* after the bad frame is still on the stream.
C24_Witness ==
  /\ DecodeEnded
  /\ mpc = "returned"
  /\ ret = [kind |-> "lost", err |-> "unmarshal"]
  /\ hlog # << >>
  /\ inbuf = Frame(Marshal(hlog[Len(hlog)]))
  /\ Len(hlog) = 2

\* C24 as stated: every payload that is no JSON object makes RecvMessage
\* fail, and Run returns the error the loop ended with.
C24_Original ==
  [][/\ \A c \in Callers : ReadsWhole(c) /\ ~ValidPayload(PayloadAhead(c)) =>
           rcv'[c].err = "unmarshal"
     /\ mpc = "select" /\ done = << "unmarshal" >> /\ mpc' # mpc =>
           ret' = [kind |-> "lost", err |-> "unmarshal"]]_vars

\* The call of RecvMessage by c takes a step, or the process dies.
RecvMoves(c) == rcv'[c] # rcv[c] \/ crashed' # crashed

\* C25: under every interleaving of Close with a RecvMessage in progress,
\* RecvMessage returns an envelope or an error: a step the call takes after
\* Close has set the connection to nil returns an error, and the call never
\* uses the nil connection (which would end the process).
C25_RecvSurvivesClose ==
  [][\A c \in Callers :
       InRecv(c) /\ tconn = "nil" /\ RecvMoves(c) =>
         rcv'[c].pc = "ret" /\ rcv'[c].err # "none" /\ ~crashed']_vars

\* A call of Close takes effect in this step.
Closes == closes' # closes

C26_State ==
  /\ \A p \in Writing : mu = p /\ tconn = "conn"
  /\ closes # << >> => Writing = {} /\ PeerRest(wire) = << >>

C26_Step ==
  /\ Closes => Writing = {} /\ mu = NoOwner /\ wire' = wire /\ snd' = snd
  /\ \A p \in Tasks :
       /\ snd[p].pc = "wpayload" /\ snd'[p] # snd[p] =>
            /\ tconn = "conn"
            /\ wire' = wire \o snd[p].data
            /\ PeerRest(wire') = << >>
       /\ closes # << >> /\ snd[p].pc = "lock" /\ snd'[p] # snd[p] =>
            /\ snd'[p].pc = "ret"
            /\ snd'[p].res = "notconn"
            /\ wire' = wire

\* C26: Close and SendMessage exclude each other: Close takes effect only
\* while no send is between its lock and its unlock, so a send that has
\* written its prefix writes its payload to the open connection and the
\* stream a local Close leaves behind ends with a whole frame; a send that
\* takes the lock after Close writes nothing.
C26_CloseExcludesSend == []C26_State /\ [][C26_Step]_vars

\* Close was called between two replies: the first is whole on the stream
\* behind the register request, and the send that took the lock after
\* Close has returned not connected without writing.
C26_Witness ==
  /\ closes # << >>
  /\ Len(PeerFrames(wire)) = 2
  /\ PeerRest(wire) = << >>
  /\ \E u, v \in UnitIds :
       /\ snd[u].pc = "ret" /\ snd[u].res = "ok"
       /\ snd[v].pc = "ret" /\ snd[v].res = "notconn"

\* The error objects with "code": -32601 among the texts of JsonTable.
CodeNotFound ==
  { GoMap("{code:-32601,message:method not found}"),
    GoMap("{code:-32601,message:handler failed}") }

\* Unit u sends an envelope whose error carries the code -32601.
SendsNotFound(u) ==
  /\ units[u].pc = "send"
  /\ "error" \in DOMAIN units[u].env
  /\ units[u].env.error \in CodeNotFound

\* C27: an error envelope with the method-not-found code -32601 is sent
\* only for a request whose method is not recognized: a unit that sends
\* that code was started for a method that is neither reserved nor an
\* extension method.
C27_CodeOnlyForUnknown ==
  \A u \in UnitIds : SendsNotFound(u) => Unknown(u)

\* Run is in register: sending the request or waiting for the reply.
InHandshake == mpc \in {"reg_send", "reg_recv"}

\* The host has neither written anything nor closed the stream.
HostSilent == hsent = 0 /\ ~peerClosed

C28_State ==
  HostSilent /\ ret.kind # "connect" => mpc \in {"connect", "reg_send", "reg_recv"}

C28_Step ==
  /\ InHandshake /\ sig => sig'
  /\ InHandshake /\ mpc' # mpc =>
       /\ sig' = sig
       /\ \/ snd[Main].pc = "ret"
          \/ rcv["main"].pc = "ret"
  /\ sig /\ ~sig' =>
       /\ mpc = "select"
       /\ HandshakeRead /\ ReplySaysSuccess
       /\ ret' = [kind |-> "nil", err |-> "none"]

\* C28: while the handshake is waiting for its reply a termination signal
\* does not make Run return: the signal stays in the channel, Run leaves the
\* handshake only when its send or its receive returns, and the signal is
\* taken only by the select after a successful handshake; as long as the
\* host neither replies nor closes the stream, Run has not returned.
C28_SignalWaitsForHandshake == []C28_State /\ [][C28_Step]_vars

\* A signal is pending while register waits for the reply of a host that
\* has written nothing.
C28_Witness ==
  /\ sig
  /\ mpc = "reg_recv"
  /\ rcv["main"].pc = "r87"
  /\ HostSilent
  /\ inbuf = << >>

====
